---------------------------- MODULE Spec2Model ----------------------------
(***************************************************************************)
(* A model of the qrFile package (src/qrFile/qrFile.go): a file is hex     *)
(* encoded, cut into fixed-width records (QrElement), every record is      *)
(* written as one QR image by WritePNGs, read back by FromPNGs, validated  *)
(* and materialised by StoreData.                                          *)
(*                                                                         *)
(* Go strings are TLA+ strings (Len, \o, SubSeq, Head and Tail apply to    *)
(* them); a Go slice expression s[a:b] is SubSeq(s, a + 1, b).  Byte       *)
(* buffers are sequences of integers 0..255.                               *)
(***************************************************************************)
EXTENDS Integers, Sequences, FiniteSets, TLC

(***************************************************************************)
(* Program constants (src/qrFile/qrFile.go, lines 27-54).                  *)
(***************************************************************************)
qrSize == 1608

qrHeaderSize == 60

\* a data size of odd length
qrDataSizeOdd == qrSize - qrHeaderSize - 1

qrDataSize == qrSize - qrHeaderSize

uintStringLength == 20

indexPos == 0

maxIndexPos == 20

payloadLengthPos == 40

payloadPos == 60

\* the field width of outputFormat, "%20d%20d%20d%s"
outputFormatWidth == 20

\* the field width of payloadFormat, "%1548s"
payloadFormatWidth == 1548

\* the bitSize argument of every strconv.ParseUint call of ParseString
parseUintBitSize == 16

\* the upper end of the slice v.Payload[0:10] of the log statements
logPayloadChars == 10

\* the 4 of len(fname)-4 in the file-name filter of FromPNGs
pngSuffixLen == 4

(***************************************************************************)
(* Bounds of the model.                                                    *)
(***************************************************************************)
\* the largest number of records one input file is cut into
MaxChunks == 2

\* how often the environment changes the image directory between the
\* writing and the reading of the images
MaxTamper == 1

\* the number of entries of a directory whose names are drawn freely
MaxEntries == 2

\* the number of elements of a QrElements a caller fills by hand
MaxStored == 2

(***************************************************************************)
(* Strings.                                                                *)
(***************************************************************************)
Min(a, b) == IF a <= b THEN a ELSE b

\* the i-th character (1-based) of s
CharAt(s, i) == SubSeq(s, i, i)

\* a slice that starts one character late
SliceSkippingFirst(s, a, b) == SubSeq(s, a + 2, b)

\* Go's s[a:b]
Slice(s, a, b) == SubSeq(s, a + 1, b)

RECURSIVE Spaces(_)
\* n spaces
Spaces(n) ==
    IF n <= 0 THEN ""
    ELSE IF n = 1 THEN " "
    ELSE LET h == Spaces(n \div 2)
         IN  h \o h \o (IF n % 2 = 1 THEN " " ELSE "")

\* a formatting that does not pad
PadLeftNoPadding(s, w) == s

\* fmt.Sprintf("%<w>s", s) and, on the text of a number, "%<w>d": right
\* justified, padded on the left with spaces, never truncated
PadLeft(s, w) == IF Len(s) >= w THEN s ELSE Spaces(w - Len(s)) \o s

DecDigits == "0123456789"

DecChar(d) == CharAt(DecDigits, d + 1)

DigitSet == { DecChar(d) : d \in 0..9 }

DigitVal(c) == CHOOSE d \in 0..9 : DecChar(d) = c

RECURSIVE FormatUint(_)
\* the %d verb on an unsigned integer
FormatUint(n) ==
    IF n < 10 THEN DecChar(n)
    ELSE FormatUint(n \div 10) \o DecChar(n % 10)

RECURSIVE LeadCount(_, _, _)
\* the number of leading spaces of s, between lo and hi; the first lo
\* characters of s are known to be spaces
LeadCount(s, lo, hi) ==
    IF lo >= hi THEN lo
    ELSE LET mid == (lo + hi + 1) \div 2
         IN  IF SubSeq(s, lo + 1, mid) = Spaces(mid - lo)
             THEN LeadCount(s, mid, hi)
             ELSE LeadCount(s, lo, mid - 1)

RECURSIVE TrailCount(_, _, _)
\* the number of trailing spaces of s, between lo and hi; the last lo
\* characters of s are known to be spaces
TrailCount(s, lo, hi) ==
    IF lo >= hi THEN lo
    ELSE LET mid == (lo + hi + 1) \div 2
         IN  IF SubSeq(s, Len(s) - mid + 1, Len(s) - lo) = Spaces(mid - lo)
             THEN TrailCount(s, mid, hi)
             ELSE TrailCount(s, lo, mid - 1)

\* strings.Trim(s, " ")
TrimSpaces(s) ==
    LET l == LeadCount(s, 0, Len(s))
    IN  IF l = Len(s) THEN ""
        ELSE SubSeq(s, l + 1, Len(s) - TrailCount(s, 0, Len(s)))

\* strings.TrimPrefix(s, p)
TrimPrefix(s, p) ==
    IF Len(s) >= Len(p) /\ SubSeq(s, 1, Len(p)) = p
    THEN SubSeq(s, Len(p) + 1, Len(s))
    ELSE s

\* strings.TrimSuffix(s, p)
TrimSuffix(s, p) ==
    IF Len(s) >= Len(p) /\ SubSeq(s, Len(s) - Len(p) + 1, Len(s)) = p
    THEN SubSeq(s, 1, Len(s) - Len(p))
    ELSE s

\* strings.Index(s, sub): the 0-based place of the first sub in s, or -1
StringsIndex(s, sub) ==
    LET hits == { i \in 0..(Len(s) - Len(sub)) : Slice(s, i, i + Len(sub)) = sub }
    IN  IF hits = {} THEN -1
        ELSE CHOOSE i \in hits : \A j \in hits : i <= j

(***************************************************************************)
(* encoding/hex.                                                           *)
(***************************************************************************)
HexDigits == "0123456789abcdef"

HexChar(d) == CharAt(HexDigits, d + 1)

HexUpper == "ABCDEF"

\* fromHexChar: the value of a hexadecimal digit of either case
HexValue ==
    [c \in { HexChar(d) : d \in 0..15 } \cup { CharAt(HexUpper, k) : k \in 1..6 } |->
        IF \E d \in 0..15 : HexChar(d) = c
        THEN CHOOSE d \in 0..15 : HexChar(d) = c
        ELSE 9 + (CHOOSE k \in 1..6 : CharAt(HexUpper, k) = c)]

RECURSIVE HexRange(_, _, _)
\* the hexadecimal text of data[lo..hi]
HexRange(data, lo, hi) ==
    IF lo > hi THEN ""
    ELSE IF lo = hi THEN HexChar(data[lo] \div 16) \o HexChar(data[lo] % 16)
    ELSE LET mid == (lo + hi) \div 2
         IN  HexRange(data, lo, mid) \o HexRange(data, mid + 1, hi)

\* hex.EncodeToString
HexEncodeToString(data) == HexRange(data, 1, Len(data))

\* hex.DecodeString: the bytes, or an error for text of odd length or with
\* a character that is no hexadecimal digit
HexDecodeString(s) ==
    IF \/ Len(s) % 2 = 1
       \/ \E i \in 1..Len(s) : CharAt(s, i) \notin DOMAIN HexValue
    THEN [err |-> "hex", bytes |-> << >>]
    ELSE [err |-> "nil",
          bytes |-> [i \in 1..(Len(s) \div 2) |->
                        16 * HexValue[CharAt(s, 2 * i - 1)] + HexValue[CharAt(s, 2 * i)]]]

(***************************************************************************)
(* QrFile.                                                                 *)
(***************************************************************************)
\* QrFile.ToHexString
ToHexString(Data_) == HexEncodeToString(Data_)

(***************************************************************************)
(* QrElement: the record codec.                                            *)
(***************************************************************************)
\* the zero value of the struct QrElement
ZeroElement == [Index |-> 0, MaxIndex |-> 0, PayloadLength |-> 0, Payload |-> ""]

\* a GetElement that stores the length of the padded payload
GetElementPaddedLength(idx, maxidx, payload) ==
    [elem |-> [Index |-> idx, MaxIndex |-> maxidx,
               PayloadLength |-> Len(PadLeft(payload, payloadFormatWidth)),
               Payload |-> PadLeft(payload, payloadFormatWidth)],
     err  |-> "nil"]

\* GetElement: the element and the error
GetElement(idx, maxidx, payload) ==
    IF Len(payload) > qrDataSize
    THEN [elem |-> [ZeroElement EXCEPT !.Index = idx, !.MaxIndex = maxidx],
          err  |-> "Payload size exceeds maximum data size"]
    ELSE [elem |-> [Index |-> idx, MaxIndex |-> maxidx,
                    PayloadLength |-> Len(payload),
                    Payload |-> PadLeft(payload, payloadFormatWidth)],
          err  |-> "nil"]

\* an element count that forgets the remainder
ElementCountFloor(n) == n \div qrDataSize

\* the number of elements GetElements makes for a payload of n characters
ElementCount(n) == (n \div qrDataSize) + (IF n % qrDataSize # 0 THEN 1 ELSE 0)

\* GetElements: the elements and the error; the loop stops at the first
\* error and leaves the remaining elements at their zero value
GetElements(payload) ==
    LET maxCount == ElementCount(Len(payload))
        one(i) == IF (i + 1) * qrDataSize > Len(payload)
                  THEN GetElement(i, maxCount - 1, Slice(payload, i * qrDataSize, Len(payload)))
                  ELSE GetElement(i, maxCount - 1,
                                  Slice(payload, i * qrDataSize, (i + 1) * qrDataSize))
        bad == { i \in 0..(maxCount - 1) : one(i).err # "nil" }
        stop == IF bad = {} THEN maxCount ELSE CHOOSE i \in bad : \A j \in bad : i <= j
    IN  [Elements |-> [k \in 1..maxCount |->
                          IF k - 1 <= stop THEN one(k - 1).elem ELSE ZeroElement],
         err |-> IF bad = {} THEN "nil" ELSE one(stop).err]

\* QrElement.AsString
AsString(elem) ==
    PadLeft(FormatUint(elem.Index), outputFormatWidth)
        \o PadLeft(FormatUint(elem.MaxIndex), outputFormatWidth)
        \o PadLeft(FormatUint(elem.PayloadLength), outputFormatWidth)
        \o elem.Payload

\* the largest value strconv.ParseUint accepts for its bitSize
ParseUintMax == (2 ^ parseUintBitSize) - 1

RECURSIVE ParseDigits(_, _)
\* the value of a text of decimal digits, cut off above ParseUintMax
ParseDigits(s, acc) ==
    IF s = "" THEN acc
    ELSE ParseDigits(Tail(s), Min(acc * 10 + DigitVal(Head(s)), ParseUintMax + 1))

\* strconv.ParseUint(s, 10, 16): the value and the error; the value is 0 on
\* a syntax error and the largest value on a range error
ParseUint(s) ==
    IF s = "" \/ \E i \in 1..Len(s) : CharAt(s, i) \notin DigitSet
    THEN [val |-> 0, err |-> "syntax"]
    ELSE IF ParseDigits(s, 0) > ParseUintMax
         THEN [val |-> ParseUintMax, err |-> "range"]
         ELSE [val |-> ParseDigits(s, 0), err |-> "nil"]

\* a ParseString that rejects only a text that is too short
ParseStringAcceptingLonger(elem, str) ==
    IF Len(str) < qrSize
    THEN [elem |-> elem, err |-> "Size mismatch"]
    ELSE [elem |-> elem, err |-> "nil"]

\* the header field of str that starts at pos
HeaderField(str, pos) == ParseUint(TrimSpaces(Slice(str, pos, pos + uintStringLength)))

\* QrElement.ParseString on the element elem: the element it leaves and the
\* error.  Every field is assigned as it is parsed, also by a failing parse.
ParseString(elem, str) ==
    IF Len(str) # qrSize
    THEN [elem |-> elem, err |-> "Size mismatch"]
    ELSE LET idx  == HeaderField(str, indexPos)
             e1   == [elem EXCEPT !.Index = idx.val]
             max  == HeaderField(str, maxIndexPos)
             e2   == [e1 EXCEPT !.MaxIndex = max.val]
             plen == HeaderField(str, payloadLengthPos)
             e3   == [e2 EXCEPT !.PayloadLength = plen.val]
         IN  IF idx.err # "nil" THEN [elem |-> e1, err |-> idx.err]
             ELSE IF max.err # "nil" THEN [elem |-> e2, err |-> max.err]
             ELSE IF plen.err # "nil" THEN [elem |-> e3, err |-> plen.err]
             ELSE [elem |-> [e3 EXCEPT !.Payload = TrimSpaces(Slice(str, payloadPos, Len(str)))],
                   err  |-> "nil"]

(***************************************************************************)
(* The external collaborators.  An image is represented by what zbarimg    *)
(* does with it: it exits with an error, or it prints "QR-Code:", the text *)
(* of the code and a line break.                                           *)
(***************************************************************************)
\* the image qr.Encode and png.Encode make of a text, as zbarimg reads it
QrImage(text) == [ok |-> TRUE, stdout |-> "QR-Code:" \o text \o "\n"]

\* a file zbarimg finds no QR code in
Unreadable == [ok |-> FALSE, stdout |-> ""]

\* the default of the flag imagePrefix of the example application
fnamePrefix == "img_"

\* the name WritePNGs gives the image of position i, inside workPath
\* (workPath is taken to end with a path separator)
ImageName(i) == fnamePrefix \o FormatUint(i) \o ".png"

\* the characters of the file names of the model, in byte order
CharOrder == ".0123456789_abcdefghijklmnopqrstuvwxyz"

RECURSIVE StrLess(_, _)
\* a < b on Go strings
StrLess(a, b) ==
    IF a = "" THEN b # ""
    ELSE IF b = "" THEN FALSE
    ELSE IF Head(a) = Head(b) THEN StrLess(Tail(a), Tail(b))
    ELSE StringsIndex(CharOrder, Head(a)) < StringsIndex(CharOrder, Head(b))

RECURSIVE SortedNames(_)
\* ioutil.ReadDir: the names of a directory, sorted by file name
SortedNames(S) ==
    IF S = {} THEN << >>
    ELSE LET m == CHOOSE a \in S : \A b \in S \ {a} : StrLess(a, b)
         IN  <<m>> \o SortedNames(S \ {m})

(***************************************************************************)
(* QrElement.ParsePNG and the goroutine of FromPNGs.                       *)
(***************************************************************************)
\* QrElement.ParsePNG on the element elem and the image img: the element it
\* leaves and the error it returns.  When ParseString fails the method
\* returns err, the error of cmd.Run, which is nil there.
ParsePNG(elem, img) ==
    LET err == IF img.ok THEN "nil" ELSE "exit status"
        p   == ParseString(elem, TrimSuffix(TrimPrefix(img.stdout, "QR-Code:"), "\n"))
    IN  IF err # "nil" THEN [elem |-> elem, err |-> err]
        ELSE IF p.err # "nil" THEN [elem |-> p.elem, err |-> err]
        ELSE [elem |-> p.elem, err |-> "nil"]

\* the file-name filter of FromPNGs
NameMatches(fname) ==
    /\ StringsIndex(fname, fnamePrefix) = 0
    /\ StringsIndex(fname, ".png") = Len(fname) - pngSuffixLen

\* the slice s[0:10] of a log statement panics on a shorter string
LogPanics(s) == Len(s) < logPayloadChars

\* the goroutine FromPNGs starts for the file fname with content img: the
\* value it sends on control (kind "nil" or "elem"), or its panic, and
\* whether it took the branch that calls ParsePNG
ReaderResult(fname, img) ==
    IF NameMatches(fname)
    THEN LET r == ParsePNG(ZeroElement, img)
         IN  IF r.err = "nil"
             THEN IF LogPanics(r.elem.Payload)
                  THEN [kind |-> "panic", elem |-> r.elem, handled |-> TRUE]
                  ELSE [kind |-> "elem", elem |-> r.elem, handled |-> TRUE]
             ELSE [kind |-> "nil", elem |-> ZeroElement, handled |-> TRUE]
    ELSE [kind |-> "nil", elem |-> ZeroElement, handled |-> FALSE]

(***************************************************************************)
(* QrElements: sort.Interface, the checks of FromPNGs, StoreData.          *)
(***************************************************************************)
\* a Less that holds for equal Index values too
LessOrEqual(es, i, j) == es[i].Index <= es[j].Index

\* QrElements.Less (positions are 1-based here)
Less(es, i, j) == es[i].Index < es[j].Index

\* QrElements.Swap
Swap(es, i, j) == [es EXCEPT ![i] = es[j], ![j] = es[i]]

RECURSIVE InsertDown(_, _)
\* the inner loop of the insertion sort: for j > a && Less(j, j-1) Swap(j, j-1)
InsertDown(es, j) ==
    IF j > 1 /\ Less(es, j, j - 1) THEN InsertDown(Swap(es, j, j - 1), j - 1) ELSE es

RECURSIVE InsertionSort(_, _)
\* sort.Sort(elem): for a slice this short package sort runs its insertion
\* sort, through Less and Swap
InsertionSort(es, i) ==
    IF i > Len(es) THEN es ELSE InsertionSort(InsertDown(es, i), i + 1)

SortElements(es) == InsertionSort(es, 2)

\* checks that take an empty element set for a good one
ValidateWithoutEmptyCheck(es) ==
    IF Len(es) = 0 THEN [err |-> "nil", Elements |-> es]
    ELSE IF Len(es) < es[1].MaxIndex
         THEN [err |-> "Incomplete set extracted.", Elements |-> es]
         ELSE LET s == SortElements(es)
              IN  IF \E i \in 1..(Len(s) - 1) : ~Less(s, i, i + 1)
                  THEN [err |-> "Duplicate element detected.", Elements |-> s]
                  ELSE [err |-> "nil", Elements |-> s]

\* the checks FromPNGs makes once every result is consumed: the error it
\* returns and the elements it leaves
Validate(es) ==
    IF Len(es) = 0 THEN [err |-> "No elements extraced.", Elements |-> es]
    ELSE IF Len(es) < es[1].MaxIndex
         THEN [err |-> "Incomplete set extracted.", Elements |-> es]
         ELSE LET s == SortElements(es)
              IN  IF \E i \in 1..(Len(s) - 1) : ~Less(s, i, i + 1)
                  THEN [err |-> "Duplicate element detected.", Elements |-> s]
                  ELSE [err |-> "nil", Elements |-> s]

RECURSIVE StoreFrom(_, _, _)
\* the loop of StoreData from element k on, with the buffer data so far
StoreFrom(es, k, data) ==
    IF k > Len(es) THEN [err |-> "nil", Data |-> data]
    ELSE IF LogPanics(es[k].Payload) THEN [err |-> "panic", Data |-> data]
    ELSE LET d == HexDecodeString(es[k].Payload)
         IN  IF d.err # "nil" THEN [err |-> d.err, Data |-> data]
             ELSE StoreFrom(es, k + 1, data \o d.bytes)

\* QrElements.StoreData on the buffer data: the error (or the panic) and
\* the buffer it leaves
StoreData(es, data) == StoreFrom(es, 1, data)

(***************************************************************************)
(* WritePNGs: the results its goroutines send and the error it returns.    *)
(***************************************************************************)
\* the error of qr.Encode for position i (the text names the position only
\* so that the reports can be told apart)
QrError(i) == "qr.Encode failed for " \o FormatUint(i)

\* the error of png.Encode for position i
PngError(i) == "png.Encode failed for " \o FormatUint(i)

RECURSIVE Join(_, _)
\* strings.Join
Join(list, sep) ==
    IF Len(list) = 0 THEN ""
    ELSE IF Len(list) = 1 THEN list[1]
    ELSE list[1] \o sep \o Join(Tail(list), sep)

\* WritePNGs returning nil although it has gathered one message
WritePNGsResultDroppingOne(errorList_) ==
    IF Len(errorList_) <= 1 THEN "nil" ELSE Join(errorList_, "; ")

\* what WritePNGs returns for the messages it has gathered
WritePNGsResult(errorList_) ==
    IF Len(errorList_) = 0 THEN "nil" ELSE Join(errorList_, "; ")

\* the capacity of the channel make(chan T, n)
ChanCap(n) == n

\* a receive loop that stops one result early
ReceiveCountOneShort(n) == n - 1

\* the number of results each of the two receive loops consumes
ReceiveCount(n) == n

(***************************************************************************)
(* The inputs of the model.                                                *)
(***************************************************************************)
\* the bytes one full record holds
BytesPerChunk == qrDataSize \div 2

\* a buffer of n bytes; its first byte is 0
MakeBuffer(n) == [i \in 1..n |-> (37 * i + 219) % 256]

\* the lengths of the input files: the empty file, files shorter and longer
\* than a log statement's slice, and the lengths around every record border
BufferLengths ==
    {0, 1, 4, 5}
        \cup { k * BytesPerChunk + d : k \in 1..(MaxChunks - 1), d \in {0, 1, 5} }
        \cup { MaxChunks * BytesPerChunk }

Buffers == { MakeBuffer(n) : n \in BufferLengths }

\* a payload of 20 hexadecimal digits
OtherPayload == "00112233445566778899"

\* the record of another file's element
OtherRecord(idx, maxidx) == AsString(GetElement(idx, maxidx, OtherPayload).elem)

\* the files the environment may put into the image directory
ForeignFiles ==
    { [name |-> "notes.txt", img |-> Unreadable],
      [name |-> "img_x.png", img |-> Unreadable],
      [name |-> "img_t.png", img |-> QrImage(Slice(OtherRecord(0, 0), 0, qrSize - 1))],
      [name |-> "img_m.png", img |-> QrImage("x" \o Slice(OtherRecord(0, 0), 1, qrSize))],
      [name |-> "img_s.png", img |-> QrImage(OtherRecord(1, 5))],
      [name |-> "img_d.png", img |-> QrImage(OtherRecord(0, 0))] }

\* the name of a copy of an image
CopyName == "img_copy.png"

(***************************************************************************)
(* The state: a run of the example application in input mode               *)
(* (createQRFilesFromFile) or in output mode (restoreFileFromQRImages).    *)
(***************************************************************************)
VARIABLES
    pc,          \* the place of the main goroutine
    inFile,      \* Data of the QrFile read from the input file (in output mode:
                 \* of the file the image directory was made from)
    elements,    \* Elements of the QrElements WritePNGs works on
    writers,     \* the goroutines of WritePNGs, by position 0..n-1
    controlW,    \* the channel control of WritePNGs
    recvW,       \* the loop counter i of the receive loop of WritePNGs
    errorList,   \* errorList of WritePNGs
    errW,        \* the error WritePNGs returned
    files,       \* the image directory: file name -> image
    tampered,    \* the changes the environment made to the directory
    dirContent,  \* the file names ioutil.ReadDir returned to FromPNGs
    readers,     \* the goroutines of FromPNGs, by place in dirContent
    controlR,    \* the channel control of FromPNGs
    recvR,       \* the loop counter i of the receive loop of FromPNGs
    newElem,     \* Elements of the QrElements FromPNGs fills
    errR,        \* the error FromPNGs returned
    newFile,     \* Data of the QrFile StoreData fills
    errS,        \* the error StoreData returned
    crashed,     \* a goroutine panicked: the process is gone
    chunk,       \* the QrElement a caller of GetElement holds
    record,      \* the text that is handed to ParseString
    damaged,     \* the text was changed after AsString made it
    parsed       \* the element ParseString filled and the error it returned

vars == <<pc, inFile, elements, writers, controlW, recvW, errorList, errW, files,
          tampered, dirContent, readers, controlR, recvR, newElem, errR, newFile,
          errS, crashed, chunk, record, damaged, parsed>>

emitVars == <<elements, writers, controlW, recvW, errorList, errW>>

readVars == <<dirContent, readers, controlR, recvR, newElem, errR>>

storeVars == <<newFile, errS>>

codecVars == <<chunk, record, damaged, parsed>>

\* the empty directory
NoFiles == [n \in {} |-> Unreadable]

\* the directory dir with the file name holding img
WithFile(dir, name, img) ==
    [n \in (DOMAIN dir) \cup {name} |-> IF n = name THEN img ELSE dir[n]]

\* the directory dir without the file name
WithoutFile(dir, name) == [n \in (DOMAIN dir) \ {name} |-> dir[n]]

\* no caller of the record codec is at work
CodecIdle ==
    /\ chunk = ZeroElement
    /\ record = ""
    /\ damaged = FALSE
    /\ parsed = [elem |-> ZeroElement, err |-> "none"]

\* the start of createQRFilesFromFile: the input file is read
InitWrite ==
    /\ pc = "GetElements"
    /\ inFile \in Buffers
    /\ elements = << >>
    /\ writers = << >>
    /\ controlW = << >>
    /\ recvW = 0
    /\ errorList = << >>
    /\ errW = "none"
    /\ files = NoFiles
    /\ tampered = 0
    /\ dirContent = << >>
    /\ readers = << >>
    /\ controlR = << >>
    /\ recvR = 0
    /\ newElem = << >>
    /\ errR = "none"
    /\ newFile = << >>
    /\ errS = "none"
    /\ crashed = FALSE
    /\ CodecIdle

(***************************************************************************)
(* createQRFilesFromFile: GetElements, then WritePNGs.                     *)
(***************************************************************************)
\* a goroutine that is started without the value of its element
NewWriterWithoutCopy(v) ==
    [pc |-> "AsQR", v |-> ZeroElement, failed |-> FALSE, qrNil |-> FALSE, sent |-> 0]

\* the goroutine WritePNGs starts for position i with its copy v
NewWriter(v) == [pc |-> "AsQR", v |-> v, failed |-> FALSE, qrNil |-> FALSE, sent |-> 0]

\* GetElements on the hex text of the file; on success WritePNGs makes its
\* channel and starts one goroutine per element, each with its own copy
CallGetElements ==
    /\ pc = "GetElements" /\ ~crashed
    /\ LET g == GetElements(ToHexString(inFile))
       IN  /\ elements' = g.Elements
           /\ IF g.err = "nil"
              THEN /\ writers' = [k \in 1..Len(g.Elements) |-> NewWriter(g.Elements[k])]
                   /\ pc' = "WritePNGs"
              ELSE /\ writers' = writers
                   /\ pc' = "failed"
    /\ UNCHANGED <<inFile, codecVars, controlW, recvW, errorList, errW, files, tampered,
                   readVars, storeVars, crashed>>

\* the goroutine of position k - 1: the log statement and v.AsQR()
WriterAsQR(k) ==
    /\ ~crashed /\ k \in DOMAIN writers /\ writers[k].pc = "AsQR"
    /\ IF LogPanics(writers[k].v.Payload)
       THEN /\ crashed' = TRUE
            /\ writers' = [writers EXCEPT ![k].pc = "panic"]
       ELSE /\ crashed' = crashed
            /\ \/ writers' = [writers EXCEPT ![k].pc = "Encode"]
               \/ writers' = [writers EXCEPT ![k].pc = "SendQrError",
                                             ![k].failed = TRUE, ![k].qrNil = TRUE]
    /\ UNCHANGED <<pc, inFile, codecVars, elements, controlW, recvW, errorList, errW, files,
                   tampered, readVars, storeVars>>

\* control <- err after a failed AsQR; the goroutine does not return
WriterSendQrError(k) ==
    /\ ~crashed /\ k \in DOMAIN writers /\ writers[k].pc = "SendQrError"
    /\ Len(controlW) < ChanCap(Len(elements))
    /\ controlW' = Append(controlW, QrError(k - 1))
    /\ writers' = [writers EXCEPT ![k].pc = "NilPNG", ![k].sent = @ + 1]
    /\ UNCHANGED <<pc, inFile, codecVars, elements, recvW, errorList, errW, files, tampered,
                   readVars, storeVars, crashed>>

\* qr.PNG() on the nil *qr.Code a failed AsQR returned: the method is code
\* of another repository; it panics when it reads a field of the code, and
\* the goroutine goes on when it does not
WriterNilPNG(k) ==
    /\ ~crashed /\ k \in DOMAIN writers /\ writers[k].pc = "NilPNG"
    /\ \/ /\ crashed' = TRUE
          /\ writers' = [writers EXCEPT ![k].pc = "panic"]
       \/ /\ crashed' = crashed
          /\ writers' = [writers EXCEPT ![k].pc = "Encode"]
    /\ UNCHANGED <<pc, inFile, codecVars, elements, controlW, recvW, errorList, errW, files,
                   tampered, readVars, storeVars>>

\* os.Create and png.Encode: the image is written, or os.Create fails (its
\* error is dropped) and png.Encode fails on the file that was not opened
WriterEncode(k) ==
    /\ ~crashed /\ k \in DOMAIN writers /\ writers[k].pc = "Encode"
    /\ \/ /\ files' = WithFile(files, ImageName(k - 1),
                               IF writers[k].qrNil THEN Unreadable
                               ELSE QrImage(AsString(writers[k].v)))
          /\ writers' = [writers EXCEPT ![k].pc = "SendNil"]
       \/ /\ files' = files
          /\ writers' = [writers EXCEPT ![k].pc = "SendPngError", ![k].failed = TRUE]
    /\ UNCHANGED <<pc, inFile, codecVars, elements, controlW, recvW, errorList, errW, tampered,
                   readVars, storeVars, crashed>>

\* control <- err after a failed png.Encode; the goroutine does not return
WriterSendPngError(k) ==
    /\ ~crashed /\ k \in DOMAIN writers /\ writers[k].pc = "SendPngError"
    /\ Len(controlW) < ChanCap(Len(elements))
    /\ controlW' = Append(controlW, PngError(k - 1))
    /\ writers' = [writers EXCEPT ![k].pc = "SendNil", ![k].sent = @ + 1]
    /\ UNCHANGED <<pc, inFile, codecVars, elements, recvW, errorList, errW, files, tampered,
                   readVars, storeVars, crashed>>

\* control <- nil, the last statement of the goroutine
WriterSendNil(k) ==
    /\ ~crashed /\ k \in DOMAIN writers /\ writers[k].pc = "SendNil"
    /\ Len(controlW) < ChanCap(Len(elements))
    /\ controlW' = Append(controlW, "nil")
    /\ writers' = [writers EXCEPT ![k].pc = "done", ![k].sent = @ + 1]
    /\ UNCHANGED <<pc, inFile, codecVars, elements, recvW, errorList, errW, files, tampered,
                   readVars, storeVars, crashed>>

\* one round of the receive loop of WritePNGs: result := <-control
WritePNGsReceive ==
    /\ pc = "WritePNGs" /\ ~crashed
    /\ recvW < ReceiveCount(Len(elements))
    /\ controlW # << >>
    /\ recvW' = recvW + 1
    /\ controlW' = Tail(controlW)
    /\ errorList' = IF Head(controlW) # "nil" THEN Append(errorList, Head(controlW))
                    ELSE errorList
    /\ UNCHANGED <<pc, inFile, codecVars, elements, writers, errW, files, tampered, readVars,
                   storeVars, crashed>>

\* the receive loop is over: WritePNGs returns
WritePNGsReturn ==
    /\ pc = "WritePNGs" /\ ~crashed
    /\ ~(recvW < ReceiveCount(Len(elements)))
    /\ errW' = WritePNGsResult(errorList)
    /\ pc' = "written"
    /\ UNCHANGED <<inFile, codecVars, elements, writers, controlW, recvW, errorList, files,
                   tampered, readVars, storeVars, crashed>>

(***************************************************************************)
(* The environment, before the run in output mode reads the directory.     *)
(***************************************************************************)
CanTamper == pc = "restore" /\ ~crashed /\ tampered < MaxTamper

\* an image is lost
EnvRemove ==
    /\ CanTamper
    /\ \E n \in DOMAIN files : files' = WithoutFile(files, n)
    /\ tampered' = tampered + 1
    /\ UNCHANGED <<pc, inFile, codecVars, emitVars, readVars, storeVars, crashed>>

\* an image is copied
EnvCopy ==
    /\ CanTamper
    /\ CopyName \notin DOMAIN files
    /\ \E n \in DOMAIN files : files' = WithFile(files, CopyName, files[n])
    /\ tampered' = tampered + 1
    /\ UNCHANGED <<pc, inFile, codecVars, emitVars, readVars, storeVars, crashed>>

\* another file is put into the directory
EnvPut ==
    /\ CanTamper
    /\ \E f \in ForeignFiles :
          /\ f.name \notin DOMAIN files
          /\ files' = WithFile(files, f.name, f.img)
    /\ tampered' = tampered + 1
    /\ UNCHANGED <<pc, inFile, codecVars, emitVars, readVars, storeVars, crashed>>

(***************************************************************************)
(* restoreFileFromQRImages: FromPNGs, then StoreData.                      *)
(***************************************************************************)
\* ioutil.ReadDir fails and FromPNGs returns its error, or FromPNGs makes
\* its channel and starts one goroutine per directory entry
FromPNGsStart ==
    /\ pc = "restore" /\ ~crashed
    /\ \/ /\ errR' = "ReadDir failed"
          /\ pc' = "read"
          /\ UNCHANGED <<dirContent, readers>>
       \/ /\ dirContent' = SortedNames(DOMAIN files)
          /\ readers' = [k \in 1..Cardinality(DOMAIN files) |->
                            [pc |-> "run", sent |-> 0, kind |-> "none",
                             handled |-> FALSE]]
          /\ pc' = "FromPNGs"
          /\ errR' = errR
    /\ UNCHANGED <<inFile, codecVars, emitVars, files, tampered, controlR, recvR, newElem,
                   storeVars, crashed>>

\* the goroutine of the k-th directory entry, from the filter to its send
ReaderRun(k) ==
    /\ ~crashed /\ k \in DOMAIN readers /\ readers[k].pc = "run"
    /\ LET r == ReaderResult(dirContent[k], files[dirContent[k]])
       IN  IF r.kind = "panic"
           THEN /\ crashed' = TRUE
                /\ readers' = [readers EXCEPT ![k].pc = "panic",
                                              ![k].handled = r.handled]
                /\ controlR' = controlR
           ELSE /\ Len(controlR) < ChanCap(Len(dirContent))
                /\ crashed' = crashed
                /\ controlR' = Append(controlR, [kind |-> r.kind, elem |-> r.elem])
                /\ readers' = [readers EXCEPT ![k].pc = "done", ![k].sent = @ + 1,
                                              ![k].kind = r.kind,
                                              ![k].handled = r.handled]
    /\ UNCHANGED <<pc, inFile, codecVars, emitVars, files, tampered, dirContent, recvR, newElem,
                   errR, storeVars>>

\* one round of the receive loop of FromPNGs: result := <-control
FromPNGsReceive ==
    /\ pc = "FromPNGs" /\ ~crashed
    /\ recvR < ReceiveCount(Len(dirContent))
    /\ controlR # << >>
    /\ recvR' = recvR + 1
    /\ controlR' = Tail(controlR)
    /\ newElem' = IF Head(controlR).kind # "nil" THEN Append(newElem, Head(controlR).elem)
                  ELSE newElem
    /\ UNCHANGED <<pc, inFile, codecVars, emitVars, files, tampered, dirContent, readers, errR,
                   storeVars, crashed>>

\* the receive loop is over: the checks, the sort, and FromPNGs returns
FromPNGsReturn ==
    /\ pc = "FromPNGs" /\ ~crashed
    /\ ~(recvR < ReceiveCount(Len(dirContent)))
    /\ newElem' = Validate(newElem).Elements
    /\ errR' = Validate(newElem).err
    /\ pc' = "read"
    /\ UNCHANGED <<inFile, codecVars, emitVars, files, tampered, dirContent, readers, controlR,
                   recvR, storeVars, crashed>>

\* StoreData into the new QrFile
CallStoreData ==
    /\ pc = "read" /\ errR = "nil" /\ ~crashed
    /\ LET r == StoreData(newElem, << >>)
       IN  /\ newFile' = r.Data
           /\ IF r.err = "panic"
              THEN crashed' = TRUE /\ errS' = errS
              ELSE crashed' = crashed /\ errS' = r.err
    /\ pc' = "stored"
    /\ UNCHANGED <<inFile, codecVars, emitVars, files, tampered, readVars>>

\* the images an error-free WritePNGs leaves for the elements es
EmittedFiles(es) ==
    [n \in { ImageName(k - 1) : k \in DOMAIN es } |->
        QrImage(AsString(es[CHOOSE k \in DOMAIN es : ImageName(k - 1) = n]))]

\* the elements GetElements makes of the file
Chunks == GetElements(ToHexString(inFile)).Elements

\* the start of restoreFileFromQRImages: the image directory holds one image
\* per element of a file
InitRead ==
    /\ pc = "restore"
    /\ inFile \in Buffers
    /\ elements = << >>
    /\ writers = << >>
    /\ controlW = << >>
    /\ recvW = 0
    /\ errorList = << >>
    /\ errW = "none"
    /\ files = EmittedFiles(Chunks)
    /\ tampered = 0
    /\ dirContent = << >>
    /\ readers = << >>
    /\ controlR = << >>
    /\ recvR = 0
    /\ newElem = << >>
    /\ errR = "none"
    /\ newFile = << >>
    /\ errS = "none"
    /\ crashed = FALSE
    /\ CodecIdle

(***************************************************************************)
(* A caller of the record codec: GetElement, AsString, then ParseString on *)
(* the text, which may have been changed on its way.                       *)
(***************************************************************************)
\* the Index and MaxIndex values GetElement is called with: those of short
\* files and those around the largest value ParseString reads back
CodecIndices ==
    { <<0, 0>>, <<0, 1>>, <<1, 1>>, <<ParseUintMax, ParseUintMax>>,
      <<0, ParseUintMax + 1>>, <<ParseUintMax + 1, ParseUintMax + 1>> }

\* the lengths of the payloads GetElement is called with: empty, shorter
\* than a log statement's slice, short, full, too long
CodecPayloadLengths == {0, 2, 2 * logPayloadChars, qrDataSize, qrDataSize + 2}

\* a payload of n hexadecimal digits
PatternPayload(n) == HexEncodeToString(MakeBuffer(n \div 2))

\* the texts a record may have become on its way to ParseString: an end
\* cut off, a character added, nothing left, a letter in the Index field
DamagedRecords(str) ==
    { Slice(str, 0, Len(str) - 1), Slice(str, 1, Len(str)), str \o " ", str \o "0", "",
      "x" \o Slice(str, 1, Len(str)) }

\* the start of a caller of the record codec
InitCodec ==
    /\ pc = "GetElement"
    /\ inFile = << >>
    /\ elements = << >>
    /\ writers = << >>
    /\ controlW = << >>
    /\ recvW = 0
    /\ errorList = << >>
    /\ errW = "none"
    /\ files = NoFiles
    /\ tampered = 0
    /\ dirContent = << >>
    /\ readers = << >>
    /\ controlR = << >>
    /\ recvR = 0
    /\ newElem = << >>
    /\ errR = "none"
    /\ newFile = << >>
    /\ errS = "none"
    /\ crashed = FALSE
    /\ CodecIdle

\* GetElement(idx, maxidx, payload)
CallGetElement ==
    /\ pc = "GetElement"
    /\ \E im \in CodecIndices, n \in CodecPayloadLengths :
          LET g == GetElement(im[1], im[2], PatternPayload(n))
          IN  /\ chunk' = g.elem
              /\ pc' = IF g.err = "nil" THEN "AsString" ELSE "failed"
    /\ UNCHANGED <<inFile, emitVars, files, tampered, readVars, storeVars, crashed,
                   record, damaged, parsed>>

\* elem.AsString()
CallAsString ==
    /\ pc = "AsString"
    /\ record' = AsString(chunk)
    /\ pc' = "ParseString"
    /\ UNCHANGED <<inFile, emitVars, files, tampered, readVars, storeVars, crashed,
                   chunk, damaged, parsed>>

\* the text is changed before it is parsed
DamageRecord ==
    /\ pc = "ParseString" /\ ~damaged
    /\ record' \in DamagedRecords(record)
    /\ damaged' = TRUE
    /\ UNCHANGED <<pc, inFile, emitVars, files, tampered, readVars, storeVars, crashed,
                   chunk, parsed>>

\* new(QrElement).ParseString(str)
CallParseString ==
    /\ pc = "ParseString"
    /\ parsed' = ParseString(ZeroElement, record)
    /\ pc' = "parsed"
    /\ UNCHANGED <<inFile, emitVars, files, tampered, readVars, storeVars, crashed,
                   chunk, record, damaged>>

(***************************************************************************)
(* FromPNGs on a directory somebody else filled: the names of its entries  *)
(* are not those WritePNGs gives.                                          *)
(***************************************************************************)
\* the names of the entries: an image name, the shortest name with prefix
\* and suffix, names with ".png" twice, with one of prefix and suffix only,
\* with the prefix or the suffix not at its end of the name, with neither
EntryNames ==
    { ImageName(0), "img_.png", "img_d.png.png", "img_.png_0.png", "img_0.jpg",
      "x.png", "ximg_0.png", "img_0.pngx", "notes.txt" }

\* the directories: at most MaxEntries entries, each holding the image of a
\* good record
Directories ==
    { [n \in S |-> QrImage(OtherRecord(0, 0))] :
        S \in { T \in SUBSET EntryNames : Cardinality(T) <= MaxEntries } }

\* the start of restoreFileFromQRImages on such a directory
InitFilter ==
    /\ pc = "restore"
    /\ inFile = << >>
    /\ elements = << >>
    /\ writers = << >>
    /\ controlW = << >>
    /\ recvW = 0
    /\ errorList = << >>
    /\ errW = "none"
    /\ files \in Directories
    /\ tampered = 0
    /\ dirContent = << >>
    /\ readers = << >>
    /\ controlR = << >>
    /\ recvR = 0
    /\ newElem = << >>
    /\ errR = "none"
    /\ newFile = << >>
    /\ errS = "none"
    /\ crashed = FALSE
    /\ CodecIdle

NextFilter ==
    \/ FromPNGsStart
    \/ \E k \in DOMAIN readers : ReaderRun(k)
    \/ FromPNGsReceive
    \/ FromPNGsReturn
    \/ CallStoreData

(***************************************************************************)
(* StoreData on a QrElements its caller filled: the package exports the    *)
(* type, its field Elements and the method.                                *)
(***************************************************************************)
\* the payloads of the elements: empty, shorter than a log statement's
\* slice (no hex, hex, odd), as long as the slice (hex, no hex), longer
\* (odd, hex in lower and in upper case)
StorePayloads ==
    { "", "zz", "00", "001122334", "0011223344", "00112233zz", "001122334455",
      "0011223344556", OtherPayload, "AABBCCDDEEFF" }

\* the elements with the payloads ps, numbered as GetElements numbers them
ElementsOf(ps) ==
    [k \in DOMAIN ps |-> [Index |-> k - 1, MaxIndex |-> Len(ps) - 1,
                          PayloadLength |-> Len(ps[k]), Payload |-> ps[k]]]

\* the QrElements handed to StoreData
StoredSets ==
    UNION { { ElementsOf(ps) : ps \in [1..n -> StorePayloads] } : n \in 0..MaxStored }

\* the start of a caller of StoreData: the elements are there, the QrFile is new
InitStore ==
    /\ pc = "read"
    /\ inFile = << >>
    /\ elements = << >>
    /\ writers = << >>
    /\ controlW = << >>
    /\ recvW = 0
    /\ errorList = << >>
    /\ errW = "none"
    /\ files = NoFiles
    /\ tampered = 0
    /\ dirContent = << >>
    /\ readers = << >>
    /\ controlR = << >>
    /\ recvR = 0
    /\ newElem \in StoredSets
    /\ errR = "nil"
    /\ newFile = << >>
    /\ errS = "none"
    /\ crashed = FALSE
    /\ CodecIdle

NextStore == CallStoreData

NextCodec ==
    \/ CallGetElement
    \/ CallAsString
    \/ DamageRecord
    \/ CallParseString

NextWrite ==
    \/ CallGetElements
    \/ \E k \in DOMAIN writers : WriterAsQR(k)
    \/ \E k \in DOMAIN writers : WriterSendQrError(k)
    \/ \E k \in DOMAIN writers : WriterNilPNG(k)
    \/ \E k \in DOMAIN writers : WriterEncode(k)
    \/ \E k \in DOMAIN writers : WriterSendPngError(k)
    \/ \E k \in DOMAIN writers : WriterSendNil(k)
    \/ WritePNGsReceive
    \/ WritePNGsReturn

NextRead ==
    \/ EnvRemove
    \/ EnvCopy
    \/ EnvPut
    \/ FromPNGsStart
    \/ \E k \in DOMAIN readers : ReaderRun(k)
    \/ FromPNGsReceive
    \/ FromPNGsReturn
    \/ CallStoreData

\* createQRFilesFromFile
SpecWrite == InitWrite /\ [][NextWrite]_vars

\* restoreFileFromQRImages
SpecRead == InitRead /\ [][NextRead]_vars

\* a caller of GetElement, AsString and ParseString
SpecCodec == InitCodec /\ [][NextCodec]_vars

\* restoreFileFromQRImages on a directory of freely named entries
SpecFilter == InitFilter /\ [][NextFilter]_vars

\* a caller of StoreData
SpecStore == InitStore /\ [][NextStore]_vars

\* an error-free createQRFilesFromFile leaves the directory SpecRead starts on
WriteLeavesEmittedFiles ==
    (pc = "written" /\ errW = "nil") => (elements = Chunks /\ files = EmittedFiles(Chunks))

(***************************************************************************)
(* Properties of createQRFilesFromFile (SpecWrite).                        *)
(***************************************************************************)
\* the goroutine of position k - 1 failed: AsQR or png.Encode gave an error
WorkerFailed(k) == writers[k].failed

\* the messages of the goroutine of position k - 1
WorkerMessages(k) == {QrError(k - 1), PngError(k - 1)}

\* the message of position k - 1 is part of the error WritePNGs returned
Reported(k) == \E m \in 1..Len(errorList) : errorList[m] \in WorkerMessages(k)

\* C5: once WritePNGs has returned, the error it returned holds the message
\* of every worker that failed.
C5_AggregationComplete ==
    pc = "written" => \A k \in DOMAIN writers : WorkerFailed(k) => Reported(k)

\* C6: WritePNGs has returned only when every worker it started is through
\* with all its sends.
C6_EmitBarrier ==
    pc = "written" => \A k \in DOMAIN writers : writers[k].pc = "done"

\* C9: once WritePNGs has returned, its result is nil exactly when no worker
\* failed.
C9_NilIffNoFailure ==
    pc = "written" => ((errW = "nil") <=> (\A k \in DOMAIN writers : ~WorkerFailed(k)))

\* C9 witness: WritePNGs has returned an error for two workers of which the
\* first failed and the second did not.
C9_Witness ==
    /\ pc = "written"
    /\ Len(writers) = 2
    /\ WorkerFailed(1) /\ ~WorkerFailed(2)
    /\ errW # "nil"

\* GetElements has returned and no goroutine of WritePNGs has made a step:
\* elements holds what GetElements made of the payload (and keeps it)
ChunkerDone ==
    /\ pc # "GetElements"
    /\ \A k \in DOMAIN writers : writers[k].pc = "AsQR"

\* the payload GetElements was called with
HexPayload == ToHexString(inFile)

\* ceil(n / c), for the payload lengths of the model
CeilDiv(n, c) == CHOOSE q \in 0..(MaxChunks + 2) : q * c >= n /\ (q = 0 \/ (q - 1) * c < n)

\* the payload of an element without its padding
Unpadded(elem) == TrimSpaces(elem.Payload)

RECURSIVE ConcatPayloads(_, _)
\* the unpadded payloads of the elements k, k + 1, ... of es, concatenated
ConcatPayloads(es, k) ==
    IF k > Len(es) THEN "" ELSE Unpadded(es[k]) \o ConcatPayloads(es, k + 1)

\* C11: GetElements makes ceil(L / qrDataSize) elements of a payload of L
\* characters, element i has Index i, and every element has MaxIndex equal
\* to the number of elements less one.
C11_ChunkCount ==
    ChunkerDone =>
        /\ Len(elements) = CeilDiv(Len(HexPayload), qrDataSize)
        /\ \A k \in DOMAIN elements :
              elements[k].Index = k - 1 /\ elements[k].MaxIndex = Len(elements) - 1

\* C11 witness: GetElements has made two elements of a payload whose length
\* is no multiple of qrDataSize.
C11_Witness ==
    /\ ChunkerDone
    /\ Len(elements) = 2
    /\ Len(HexPayload) % qrDataSize # 0

\* C12: the unpadded payloads of the elements, in Index order, concatenate
\* to the payload GetElements was called with; every slice has qrDataSize
\* characters except the last, which has the remainder.
C12_SlicesContiguous ==
    ChunkerDone =>
        /\ ConcatPayloads(elements, 1) = HexPayload
        /\ \A k \in DOMAIN elements :
              Len(Unpadded(elements[k])) =
                  IF k < Len(elements) THEN qrDataSize
                  ELSE Len(HexPayload) - (Len(elements) - 1) * qrDataSize

\* C12 witness: GetElements has cut a payload into a full slice and a last
\* slice of two characters.
C12_Witness ==
    /\ ChunkerDone
    /\ Len(elements) = 2
    /\ Len(Unpadded(elements[1])) = qrDataSize
    /\ Unpadded(elements[2]) = SubSeq(HexPayload, qrDataSize + 1, qrDataSize + 2)
    /\ Len(HexPayload) = qrDataSize + 2

\* C13: PayloadLength of every element but the last is qrDataSize; that of
\* the last is L mod qrDataSize, or qrDataSize when that remainder is 0.
C13_PayloadLength ==
    ChunkerDone =>
        \A k \in DOMAIN elements :
            elements[k].PayloadLength =
                IF k < Len(elements) \/ Len(HexPayload) % qrDataSize = 0
                THEN qrDataSize
                ELSE Len(HexPayload) % qrDataSize

\* C13 witness: GetElements has made two elements of a payload of twice
\* qrDataSize characters, and the last element is full.
C13_Witness ==
    /\ ChunkerDone
    /\ Len(HexPayload) = 2 * qrDataSize
    /\ Len(elements) = 2
    /\ elements[2].PayloadLength = qrDataSize

\* C15: of the empty payload GetElements makes one element, with Index 0,
\* MaxIndex 0 and PayloadLength 0.
C15_EmptyInputOneChunk ==
    (ChunkerDone /\ HexPayload = "") =>
        /\ Len(elements) = 1
        /\ elements[1].Index = 0
        /\ elements[1].MaxIndex = 0
        /\ elements[1].PayloadLength = 0

(***************************************************************************)
(* Properties of restoreFileFromQRImages (SpecRead).                       *)
(***************************************************************************)
Incomplete == "Incomplete set extracted."

Duplicate == "Duplicate element detected."

\* the step in which FromPNGs leaves its receive loop, makes its checks and
\* returns: newElem holds the collected elements in the order they arrived
ChecksStep == pc = "FromPNGs" /\ pc' = "read"

\* FromPNGs has made its checks and returned
ChecksDone == pc \in {"read", "stored"} /\ errR # "ReadDir failed"

\* two of the elements es have the same Index
HasDuplicate(es) == \E i, j \in DOMAIN es : i # j /\ es[i].Index = es[j].Index

\* C1: when nothing in the image directory of a file was lost or changed,
\* restoreFileFromQRImages runs through without an error and leaves the
\* bytes of the file.
C1_RoundTrip ==
    (tampered = 0 /\ errR # "ReadDir failed") =>
        /\ ~crashed
        /\ pc = "read" => errR = "nil"
        /\ pc = "stored" => (errS = "nil" /\ newFile = inFile)

\* C2: FromPNGs returns the incomplete-set error whenever it has collected
\* fewer elements than MaxIndex + 1 of the first of them.
C2_IncompleteRejected ==
    [][(ChecksStep /\ Len(newElem) > 0 /\ Len(newElem) < newElem[1].MaxIndex + 1)
          => errR' = Incomplete]_vars

\* C3: when FromPNGs has returned nil, Elements holds MaxIndex + 1 elements
\* whose Index values are 0, 1, ..., MaxIndex in this order.
C3_SuccessGuarantee ==
    (ChecksDone /\ errR = "nil") =>
        /\ Len(newElem) = newElem[1].MaxIndex + 1
        /\ \A k \in DOMAIN newElem : newElem[k].Index = k - 1

\* C4 as stated: for every collected set with two elements of the same
\* Index, FromPNGs returns the duplicate-element error.
C4_DuplicateRejected ==
    (ChecksDone /\ HasDuplicate(newElem)) => errR = Duplicate

\* C4 amended: for every collected set with two elements of the same Index,
\* FromPNGs returns the incomplete-set error when the set has fewer elements
\* than MaxIndex of the element that arrived first, and the
\* duplicate-element error otherwise; it never returns nil.
C4_DuplicateNeverAccepted ==
    [][(ChecksStep /\ HasDuplicate(newElem))
          => errR' = IF Len(newElem) < newElem[1].MaxIndex THEN Incomplete
                     ELSE Duplicate]_vars

\* C4 witness: FromPNGs has returned the duplicate-element error for a set
\* with two elements of the same Index that differ in their payloads.
C4_Witness ==
    /\ ChecksDone
    /\ errR = Duplicate
    /\ \E i, j \in DOMAIN newElem :
          /\ newElem[i].Index = newElem[j].Index
          /\ newElem[i].Payload # newElem[j].Payload

\* the decode step of the goroutine of the k-th directory entry fails:
\* zbarimg fails, or ParseString gives an error
DecodeFails(k) ==
    LET img == files[dirContent[k]]
    IN  /\ NameMatches(dirContent[k])
        /\ \/ ~img.ok
           \/ ParseString(ZeroElement,
                          TrimSuffix(TrimPrefix(img.stdout, "QR-Code:"), "\n")).err # "nil"

\* C7: a goroutine whose decode step fails does not end the run, and the
\* result it delivers is nil, not an element.
C7_FailedDecodeDropped ==
    \A k \in DOMAIN readers :
        DecodeFails(k) =>
            /\ readers[k].pc # "panic"
            /\ readers[k].pc = "done" => readers[k].kind = "nil"

RECURSIVE DecodedFrom(_)
\* the elements the goroutines of the directory entries k, k + 1, ... deliver
DecodedFrom(k) ==
    IF k > Len(dirContent) THEN << >>
    ELSE LET r == ReaderResult(dirContent[k], files[dirContent[k]])
         IN  (IF r.kind = "elem" THEN <<r.elem>> ELSE << >>) \o DecodedFrom(k + 1)

\* what FromPNGs returns when the results arrive in the order of the
\* directory entries
InOrderOutcome == Validate(DecodedFrom(1))

\* C8: whatever the order in which the goroutines deliver, FromPNGs returns
\* what it returns when they deliver in the order of the directory entries:
\* the same error, and on success the same Elements.
C8_SchedulingIndependent ==
    ChecksDone =>
        /\ errR = InOrderOutcome.err
        /\ errR = "nil" => newElem = InOrderOutcome.Elements

\* C10: no goroutine of FromPNGs delivers more than one result, and when
\* FromPNGs makes its checks every goroutine it started has delivered its
\* one result, len(dirContent) results are consumed and the channel is empty.
\* (A goroutine that panics ends the process; no check is made then.)
C10_CollectorBarrier ==
    /\ \A k \in DOMAIN readers : readers[k].sent <= 1
    /\ ChecksDone =>
          /\ \A k \in DOMAIN readers : readers[k].pc = "done" /\ readers[k].sent = 1
          /\ recvR = Len(dirContent)
          /\ controlR = << >>

\* C10 witness: FromPNGs has made its checks on a directory of three
\* entries, of which one gave an element and one gave nil.
C10_Witness ==
    /\ ChecksDone
    /\ Len(dirContent) = 3
    /\ \E k \in DOMAIN readers : readers[k].kind = "elem"
    /\ \E k \in DOMAIN readers : readers[k].kind = "nil"

NoElements == "No elements extraced."

\* C16: when FromPNGs has consumed every result and no goroutine delivered
\* an element (the directory is empty, no name passes the filter, or every
\* decode failed), it returns the no-elements error and no other.  (A
\* goroutine that panics ends the process before the results are consumed.)
C16_NoElementsExtracted ==
    (ChecksDone /\ \A k \in DOMAIN readers : readers[k].kind # "elem") =>
        (newElem = << >> /\ errR = NoElements)

\* C16 witness: FromPNGs has returned the no-elements error for a directory
\* with an entry that passes the filter and whose decode failed.
C16_Witness ==
    /\ ChecksDone
    /\ errR = NoElements
    /\ \E k \in DOMAIN readers : NameMatches(dirContent[k]) /\ readers[k].kind = "nil"

\* C18: FromPNGs does not return nil for a collected set in which two
\* elements differ in MaxIndex.
C18_CrossChunkAgreement ==
    (ChecksDone /\ \E i, j \in DOMAIN newElem : newElem[i].MaxIndex # newElem[j].MaxIndex)
        => errR # "nil"

\* the goroutine of the k-th directory entry can make its step: it has not
\* run yet, and it panics or finds room in the channel
ReaderCanStep(k) ==
    /\ readers[k].pc = "run"
    /\ \/ ReaderResult(dirContent[k], files[dirContent[k]]).kind = "panic"
       \/ Len(controlR) < ChanCap(Len(dirContent))

\* FromPNGs can make a step: a result waits in the channel, or the loop is over
CollectorCanStep ==
    \/ recvR < ReceiveCount(Len(dirContent)) /\ controlR # << >>
    \/ ~(recvR < ReceiveCount(Len(dirContent)))

\* C20: a call of FromPNGs that has not returned yet is never at a stop:
\* the process is alive, and FromPNGs or one of its goroutines can make a
\* step.  Every step consumes a result or ends a goroutine, so FromPNGs
\* then returns.
C20_FromPNGsNeverStops ==
    pc = "FromPNGs" =>
        /\ ~crashed
        /\ CollectorCanStep \/ \E k \in DOMAIN readers : ReaderCanStep(k)

\* the name s starts with p
StartsWith(s, p) == Len(s) >= Len(p) /\ SubSeq(s, 1, Len(p)) = p

\* the name s ends with p
EndsWith(s, p) == Len(s) >= Len(p) /\ SubSeq(s, Len(s) - Len(p) + 1, Len(s)) = p

\* C21: the goroutine of a directory entry calls the decoder if and only if
\* the name of the entry starts with fnamePrefix and ends with ".png"; a
\* goroutine that does not call it delivers nil and does not end the run.
C21_NamingFilter ==
    \A k \in DOMAIN readers :
        readers[k].pc # "run" =>
            /\ readers[k].handled <=>
                  (StartsWith(dirContent[k], fnamePrefix) /\ EndsWith(dirContent[k], ".png"))
            /\ ~readers[k].handled => (readers[k].pc = "done" /\ readers[k].kind = "nil")

\* hex.DecodeString takes the payload
ValidHex(p) == HexDecodeString(p).err = "nil"

RECURSIVE DecodedBytes(_, _)
\* the decoded bytes of the elements k, k + 1, ... in element order
DecodedBytes(es, k) ==
    IF k > Len(es) THEN << >>
    ELSE HexDecodeString(es[k].Payload).bytes \o DecodedBytes(es, k + 1)

\* C22: StoreData does not end the run; it returns an error when the payload
\* of some element is no valid hex text, whatever the length of the payload,
\* and otherwise it returns nil and has appended the decoded bytes of the
\* elements, in element order, to the buffer.
C22_StoreDataHexCheck ==
    pc = "stored" =>
        /\ ~crashed
        /\ IF \E k \in DOMAIN newElem : ~ValidHex(newElem[k].Payload)
           THEN errS \notin {"nil", "none"}
           ELSE errS = "nil" /\ newFile = DecodedBytes(newElem, 1)

\* WritePNGs has started its goroutines
Launched == pc \in {"WritePNGs", "written"}

\* the image the goroutine of position k - 1 leaves when it writes one: the
\* code of the record of elem, or no code at all after a failed AsQR
ImageOf(k, elem) == IF writers[k].qrNil THEN Unreadable ELSE QrImage(AsString(elem))

\* C23: once WritePNGs has started its goroutines there is one goroutine per
\* position, the goroutine of position i works on a value of its own that
\* equals Elements[i] as it was at the start, no two goroutines write the
\* same image, and the image of position i is made of Elements[i] by the
\* goroutine of position i.
C23_WorkerIsolation ==
    Launched =>
        /\ DOMAIN writers = DOMAIN elements
        /\ \A k \in DOMAIN writers : writers[k].v = elements[k]
        /\ \A j, k \in DOMAIN writers : j # k => ImageName(j - 1) # ImageName(k - 1)
        /\ \A n \in DOMAIN files :
              \E k \in DOMAIN writers :
                  /\ n = ImageName(k - 1)
                  /\ writers[k].pc \in {"SendNil", "done"}
                  /\ files[n] = ImageOf(k, elements[k])

\* C23 witness: WritePNGs has returned for two elements of different
\* payloads, and both images are written.
C23_Witness ==
    /\ pc = "written"
    /\ Len(elements) = 2
    /\ elements[1].Payload # elements[2].Payload
    /\ DOMAIN files = {ImageName(0), ImageName(1)}
    /\ files[ImageName(0)] # files[ImageName(1)]

\* the goroutine of position k - 1 waits at a send on control
AtSend(k) == writers[k].pc \in {"SendQrError", "SendPngError", "SendNil"}

\* C24: no goroutine of WritePNGs sends more than one value on control, and
\* once WritePNGs has returned every goroutine has sent its one value and
\* ended, none waits at a send, and no value is left in the channel.
C24_OneReportPerWorker ==
    /\ \A k \in DOMAIN writers : writers[k].sent <= 1
    /\ pc = "written" =>
          /\ \A k \in DOMAIN writers : writers[k].sent = 1 /\ ~AtSend(k)
          /\ controlW = << >>

\* the elements as ParseString hands them on: the payloads without padding
UnpaddedElements(es) == [k \in DOMAIN es |-> [es[k] EXCEPT !.Payload = Unpadded(es[k])]]

RecordMade == pc \in {"ParseString", "parsed"} /\ ~damaged

\* C14: the text AsString makes of an element of GetElement, whatever its
\* PayloadLength from 0 to qrDataSize, has qrSize characters: three header
\* fields of uintStringLength characters, then the payload padded to
\* qrDataSize characters.
C14_RecordWidth ==
    RecordMade =>
        /\ Len(record) = qrSize
        /\ payloadPos = 3 * uintStringLength
        /\ Len(chunk.Payload) = qrDataSize
        /\ Slice(record, payloadPos, Len(record)) = chunk.Payload

\* C14 witness: AsString has made the text of an element with PayloadLength 0.
C14_Witness ==
    /\ RecordMade
    /\ chunk.PayloadLength = 0
    /\ Len(record) = qrSize

\* C17: ParseString returns the size-mismatch error for every text whose
\* length is not qrSize.
C17_SizeMismatch ==
    (pc = "parsed" /\ Len(record) # qrSize) => parsed.err = "Size mismatch"

\* C17 witness: ParseString has returned the size-mismatch error for a text
\* of qrSize + 1 characters.
C17_Witness ==
    /\ pc = "parsed"
    /\ Len(record) = qrSize + 1
    /\ parsed.err = "Size mismatch"

\* GetElements makes elements like elem: Index is at most MaxIndex, the
\* payload is not empty, and every element but the last is full
ChunkerMakes(elem) ==
    /\ elem.Index <= elem.MaxIndex
    /\ elem.PayloadLength \in 1..qrDataSize
    /\ elem.Index < elem.MaxIndex => elem.PayloadLength = qrDataSize

\* C19: ParseString on the text AsString made of an element GetElements can
\* make returns no error and gives back Index, MaxIndex, PayloadLength and
\* the payload without its padding.
C19_RecordRoundTrip ==
    (pc = "parsed" /\ ~damaged /\ ChunkerMakes(chunk)) =>
        /\ parsed.err = "nil"
        /\ parsed.elem = [chunk EXCEPT !.Payload = Unpadded(chunk)]

=============================================================================
